---- MODULE Spec2Model ----
(***************************************************************************)
(* Model of damp83/bancoproblemas: the persistence endpoint                *)
(* (api/problems.js) against a hash-versioned remote file, and the         *)
(* generation endpoint (api/generate-problem.js) with its record           *)
(* normaliser.                                                             *)
(***************************************************************************)
EXTENDS Integers, Sequences, FiniteSets, TLC

(***************************************************************************)
(* Bounds of the model.                                                    *)
(***************************************************************************)
\* number of persistence requests in one behaviour
NumReqs == 2

(***************************************************************************)
(* JavaScript values.                                                      *)
(***************************************************************************)
Undefined == [t |-> "undefined"]
Null == [t |-> "null"]
NaN == [t |-> "nan"]
Num(n) == [t |-> "num", v |-> n]
Str(s) == [t |-> "str", v |-> s]
Bool(b) == [t |-> "bool", v |-> b]
Arr(s) == [t |-> "arr", v |-> s]
Obj(r) == [t |-> "obj", v |-> r]
\* the empty object {}
EmptyRec == [k \in {} |-> Undefined]

\* a value that is false in a condition, x || y, x ? y : z
Falsy(x) ==
  \/ x.t \in {"undefined", "null", "nan"}
  \/ x.t = "num" /\ x.v = 0
  \/ x.t = "str" /\ x.v = <<>>
  \/ x.t = "bool" /\ x.v = FALSE

\* x || y
OrElse(x, y) == IF Falsy(x) THEN y ELSE x

\* x ?? y
Nullish(x, y) == IF x.t \in {"undefined", "null"} THEN y ELSE x

\* o?.k : undefined when o is null, undefined, or has no property k
Get(o, k) == IF o.t = "obj" /\ k \in DOMAIN o.v THEN o.v[k] ELSE Undefined

\* Array.isArray
IsArray(x) == x.t = "arr"

(***************************************************************************)
(* Text of the remote file.  A text is a sequence of tokens.               *)
(***************************************************************************)
ProblemIds == {"a", "b"}

\* the problems arrays a client posts: empty, or one record
ProblemArrays == {<<>>} \cup {<<x>> : x \in ProblemIds}

RECURSIVE JoinItems(_)
JoinItems(arr) ==
  IF Len(arr) = 0 THEN <<>>
  ELSE IF Len(arr) = 1 THEN <<arr[1]>>
  ELSE <<arr[1], ",">> \o JoinItems(Tail(arr))

\* JSON.stringify(problems, null, 2) of an array of records
JSONStringify(arr) == <<"[">> \o JoinItems(arr) \o <<"]">>

\* a text JSON.parse rejects
CorruptText == <<"{">>
EmptyText == <<>>

\* JSON.parse: "throw" when the text is no JSON document
JSONParse(text) ==
  IF \E a \in ProblemArrays : JSONStringify(a) = text
  THEN Arr(CHOOSE a \in ProblemArrays : JSONStringify(a) = text)
  ELSE [t |-> "throw"]

toBase64(text) == [b64 |-> text]
fromBase64(b) == b.b64

(***************************************************************************)
(* The hosting API (GitHub contents API), by the contract the handler      *)
(* consumes: the version hash of a file is the hash of its content (the    *)
(* blob sha), a PUT must carry the current hash of an existing file and    *)
(* no hash for a file that does not exist yet.                             *)
(***************************************************************************)
BlobSha(text) == [t |-> "sha", of |-> text]

NoFile == [exists |-> FALSE, content |-> EmptyText, sha |-> Null]
FileOf(text) == [exists |-> TRUE, content |-> text, sha |-> BlobSha(text)]

MsgNotFound == "Not Found"
MsgMismatch == "data/problems.json does not match"
MsgNoSha == "Invalid request. \"sha\" wasn't supplied."
MsgUpstream == "Server Error"
MsgEmpty == ""

\* /sha/i.test(text)
MentionsSha(text) == text \in {MsgNoSha}

\* a failure that is neither 404 nor a hash mismatch: its status, and the
\* message its body carries (the API answers every failure with a message)
UpstreamStatuses == {403}
UpstreamTexts == {MsgUpstream}

\* the PUT carries the hash the file has now (none when there is no file)
ShaMatches(rem, body) ==
  IF rem.exists THEN "sha" \in DOMAIN body /\ body.sha = rem.sha
  ELSE "sha" \notin DOMAIN body

\* reply of GET /repos/{owner}/{repo}/contents/{path}
GitHubGet(rem) ==
  IF rem.exists
  THEN [status |-> 200, ok |-> TRUE,
        json |-> [content |-> toBase64(rem.content), sha |-> rem.sha]]
  ELSE [status |-> 404, ok |-> FALSE, text |-> MsgNotFound]

\* the file after PUT /repos/{owner}/{repo}/contents/{path}
GitHubPutFile(rem, body) ==
  IF ShaMatches(rem, body) THEN FileOf(fromBase64(body.content)) ELSE rem

\* reply of PUT /repos/{owner}/{repo}/contents/{path}
GitHubPutReply(rem, body) ==
  IF ShaMatches(rem, body)
  THEN [status |-> IF rem.exists THEN 200 ELSE 201, ok |-> TRUE,
        json |-> [content |-> [sha |-> BlobSha(fromBase64(body.content))]]]
  ELSE IF rem.exists /\ "sha" \notin DOMAIN body
  THEN [status |-> 422, ok |-> FALSE, text |-> MsgNoSha]
  ELSE [status |-> 409, ok |-> FALSE, text |-> MsgMismatch]

\* a reply that reports a failure of the service itself
UpstreamFailure(status, text) == [status |-> status, ok |-> FALSE, text |-> text]

(***************************************************************************)
(* api/problems.js                                                         *)
(***************************************************************************)
Response(status, body) == [status |-> status, body |-> body]
NoResp == [status |-> 0, body |-> EmptyRec]

\* a truthy property k of the result object f
HasTruthy(f, k) == k \in DOMAIN f /\ f[k] # MsgEmpty

getFile(res) ==
  IF res.status = 404 THEN [status |-> 404]
  ELSE IF ~res.ok THEN [status |-> res.status, error |-> res.text]
  ELSE [status |-> 200, content |-> fromBase64(res.json.content), sha |-> res.json.sha]

\* putBody without `if (sha) body.sha = sha`
putBody_NoSha(args) ==
  [message |-> args.message, content |-> toBase64(args.content), branch |-> "main"]

\* the body putFile sends
putBody(args) ==
  LET body == [message |-> args.message, content |-> toBase64(args.content),
               branch |-> "main"]
  IN IF ~Falsy(args.sha) THEN body @@ [sha |-> args.sha] ELSE body

\* putFile reading json.sha instead of json.content?.sha
putFile_TopLevelSha(res) ==
  IF ~res.ok THEN [status |-> res.status, error |-> res.text]
  ELSE [status |-> res.status]

putFile(res) ==
  IF ~res.ok THEN [status |-> res.status, error |-> res.text]
  ELSE [status |-> res.status, sha |-> res.json.content.sha]

\* the conflict test without `status === 409`
IsConflict_No409(status, error) == status = 412 \/ MentionsSha(error)

\* status === 409 || status === 412 || /sha/i.test(save.error)
IsConflict(status, error) == status = 409 \/ status = 412 \/ MentionsSha(error)

Json(status, body) == [kind |-> "respond", resp |-> Response(status, body), args |-> EmptyRec]

\* `Update problems ${new Date().toISOString()}`
DefaultMessage == Str(<<"Update problems">>)

\* the arguments of the handler's putFile call for a parsed body
PostArgs(val) ==
  [content |-> JSONStringify(IF IsArray(Get(val, "problems"))
                             THEN Get(val, "problems").v ELSE <<>>),
   sha |-> OrElse(Get(val, "sha"), Undefined),
   message |-> OrElse(Get(val, "message"), DefaultMessage)]

\* the handler with a GET branch that takes every method but POST
handlerEntry_GetByDefault(method, body, token) ==
  IF method = "OPTIONS" THEN Json(200, [text |-> "ok"])
  ELSE IF ~token THEN Json(500, [error |-> "Missing GITHUB_TOKEN"])
  ELSE IF method # "POST"
  THEN [kind |-> "getFile", resp |-> NoResp, args |-> EmptyRec]
  ELSE IF ~body.json THEN Json(400, [error |-> "Bad request"])
  ELSE [kind |-> "putFile", resp |-> NoResp, args |-> PostArgs(body.val)]

\* the handler up to its first call of the hosting API
handlerEntry(method, body, token) ==
  IF method = "OPTIONS" THEN Json(200, [text |-> "ok"])
  ELSE IF ~token THEN Json(500, [error |-> "Missing GITHUB_TOKEN"])
  ELSE IF method = "GET"
  THEN [kind |-> "getFile", resp |-> NoResp, args |-> EmptyRec]
  ELSE IF method = "POST"
  THEN IF ~body.json THEN Json(400, [error |-> "Bad request"])
       ELSE [kind |-> "putFile", resp |-> NoResp, args |-> PostArgs(body.val)]
  ELSE Json(405, [error |-> "Method not allowed"])

\* the GET branch without the 404 case: a missing file reads as an empty one
getRespond_No404(file) ==
  IF HasTruthy(file, "error")
  THEN Response(IF file.status # 0 THEN file.status ELSE 500, [error |-> file.error])
  ELSE Response(200, [problems |-> <<>>])

\* the GET branch after getFile returned
getRespond(file) ==
  IF file.status = 404
  THEN Response(404, [problems |-> <<>>, sha |-> Null, notFound |-> TRUE])
  ELSE IF HasTruthy(file, "error")
  THEN Response(IF file.status # 0 THEN file.status ELSE 500, [error |-> file.error])
  ELSE LET text == IF "content" \in DOMAIN file /\ file.content # EmptyText
                   THEN file.content ELSE JSONStringify(<<>>)
           parsed == JSONParse(text)
           problems == IF parsed.t = "throw" THEN <<>> ELSE parsed.v
       IN IF "sha" \in DOMAIN file
          THEN Response(200, [problems |-> problems, sha |-> file.sha])
          ELSE Response(200, [problems |-> problems])

\* the POST branch after putFile returned
postRespond(save) ==
  IF HasTruthy(save, "error")
  THEN LET status == IF save.status # 0 THEN save.status ELSE 500
       IN Response(status, [error |-> save.error,
                            conflict |-> IsConflict(status, save.error)])
  ELSE IF "sha" \in DOMAIN save
  THEN Response(200, [ok |-> TRUE, sha |-> save.sha])
  ELSE Response(200, [ok |-> TRUE])

\* the catch block of the POST branch
postCatch == Response(400, [error |-> "Bad request"])

(***************************************************************************)
(* Strings and numbers of the generation endpoint.  A string is a sequence *)
(* of pieces: a piece is one significant character (a digit, "," "." "-"   *)
(* "?" "$") or a run of letters kept whole.  Numbers are integers or NaN.  *)
(***************************************************************************)
DigitSeq == <<"0", "1", "2", "3", "4", "5", "6", "7", "8", "9">>
Digits == {DigitSeq[i] : i \in 1..Len(DigitSeq)}
DigitVal(c) == (CHOOSE i \in 1..Len(DigitSeq) : DigitSeq[i] = c) - 1

RECURSIVE DigitsToNat(_)
DigitsToNat(s) ==
  IF s = <<>> THEN 0
  ELSE DigitsToNat(SubSeq(s, 1, Len(s) - 1)) * 10 + DigitVal(s[Len(s)])

AllDigits(s) == s # <<>> /\ \A i \in 1..Len(s) : s[i] \in Digits

\* Number(s) of a string: 0 for "", the integer it spells, NaN otherwise
StrToNum(s) ==
  IF s = <<>> THEN Num(0)
  ELSE IF AllDigits(s) THEN Num(DigitsToNat(s))
  ELSE IF s[1] = "-" /\ AllDigits(Tail(s)) THEN Num(0 - DigitsToNat(Tail(s)))
  ELSE NaN

\* Number(x)
ToNumber(x) ==
  CASE x.t = "num" -> x
    [] x.t = "nan" -> NaN
    [] x.t = "undefined" -> NaN
    [] x.t = "null" -> Num(0)
    [] x.t = "bool" -> Num(IF x.v THEN 1 ELSE 0)
    [] x.t = "str" -> StrToNum(x.v)
    [] x.t = "obj" -> NaN

RECURSIVE NatToDigits(_)
NatToDigits(n) ==
  IF n < 10 THEN <<DigitSeq[n + 1]>>
  ELSE Append(NatToDigits(n \div 10), DigitSeq[(n % 10) + 1])

\* String(x)
JsString(x) ==
  CASE x.t = "str" -> x.v
    [] x.t = "num" -> IF x.v < 0 THEN <<"-">> \o NatToDigits(0 - x.v)
                      ELSE NatToDigits(x.v)
    [] x.t = "nan" -> <<"NaN">>
    [] x.t = "undefined" -> <<"undefined">>
    [] x.t = "null" -> <<"null">>
    [] x.t = "bool" -> IF x.v THEN <<"true">> ELSE <<"false">>
    [] x.t = "obj" -> <<"[object Object]">>

\* Math.min and Math.max of two numbers: NaN when either is NaN
MathMin(a, b) ==
  IF a.t = "nan" \/ b.t = "nan" THEN NaN ELSE IF a.v <= b.v THEN a ELSE b
MathMax(a, b) ==
  IF a.t = "nan" \/ b.t = "nan" THEN NaN ELSE IF a.v >= b.v THEN a ELSE b

\* Math.max(1, Math.min(hi, Number(x || 1)))
Clamp(x, hi) == MathMax(Num(1), MathMin(Num(hi), ToNumber(OrElse(x, Num(1)))))

MaxGrade == 6
MaxCount == 10

UpperOf(piece) ==
  CASE piece = "ppt" -> "PPT"
    [] piece = "dos_operaciones" -> "DOS_OPERACIONES"
    [] OTHER -> piece

\* s.toUpperCase()
ToUpperCase(s) == [i \in 1..Len(s) |-> UpperOf(s[i])]

(***************************************************************************)
(* generate-problem.js: prompt, record normaliser.                         *)
(***************************************************************************)
\* what the prompt text says: the count, the grade, the type and the theme
buildPrompt(a) ==
  [n |-> Clamp(a.count, MaxCount), grade |-> a.grade, type |-> a.type,
   themed |-> ~Falsy(a.theme)]

RESULTADO_ANTERIOR == Str(<<"RESULTADO_ANTERIOR">>)
Unknown == Str(<<"?">>)

\* the pieces the pattern [^0-9.?-] leaves
Kept == Digits \cup {".", "?", "-"}

\* s.replace(',', '.'): the first comma only
RECURSIVE ReplaceFirstComma(_)
ReplaceFirstComma(s) ==
  IF s = <<>> THEN <<>>
  ELSE IF Head(s) = "," THEN <<".">> \o Tail(s)
  ELSE <<Head(s)>> \o ReplaceFirstComma(Tail(s))

\* s.replace(/[^0-9.?-]/g, ...): every piece outside the class is dropped
StripOthers(s) == SelectSeq(s, LAMBDA c : c \in Kept)

coerceStr(v) ==
  IF v.t \in {"undefined", "null"} THEN Str(<<>>)
  ELSE IF v = Unknown \/ v = RESULTADO_ANTERIOR THEN v
  ELSE Str(StripOthers(ReplaceFirstComma(JsString(v))))

\* property k of the record rec, undefined when absent
Prop(rec, k) == IF k \in DOMAIN rec THEN rec[k] ELSE Undefined

\* rec with property k set to val
With(rec, k, val) == [x \in DOMAIN rec \cup {k} |-> IF x = k THEN val ELSE rec[x]]

\* { ...x }: the own named properties of x
Spread(x) == IF x.t = "obj" THEN x.v ELSE EmptyRec

SimpleTypes == {"PPT", "UVT", "COMPARACION", "CAMBIO"}

\* the keys of data and labels per type: two given quantities, one result
KeysOf(type) ==
  CASE type = "PPT" -> <<"p1", "p2", "t">>
    [] type = "UVT" -> <<"u", "v", "t">>
    [] type = "COMPARACION" -> <<"cm", "cmen", "d">>
    [] type = "CAMBIO" -> <<"ci", "c", "cf">>

\* the default captions per type
DefaultLabels(type) ==
  CASE type = "PPT" -> [p1 |-> "Parte 1", p2 |-> "Parte 2", t |-> "Total"]
    [] type = "UVT" -> [u |-> "Unidad", v |-> "Veces", t |-> "Total"]
    [] type = "COMPARACION" ->
         [cm |-> "Cantidad mayor", cmen |-> "Cantidad menor", d |-> "Diferencia"]
    [] type = "CAMBIO" ->
         [ci |-> "Cantidad inicial", c |-> "Cambio", cf |-> "Cantidad final"]

\* is the string value x one of the type names
IsType(x, names) == x.t = "str" /\ Len(x.v) = 1 /\ x.v[1] \in names

Operations == {Str(<<"+">>), Str(<<"-">>), Str(<<"*">>), Str(<<"/">>)}

\* data, labels, operation and answer of a record or step o of type `type`
\* (a string value); operation and answer are set in the order the code sets
\* them, which does not matter for the result
Reshape(o, type) ==
  LET d == Spread(OrElse(Prop(o, "data"), Obj(EmptyRec)))
      k == KeysOf(type.v[1])
      o1 == IF IsType(type, SimpleTypes)
            THEN With(o, "data",
                      Obj([x \in {k[1], k[2], k[3]} |->
                             IF x = k[3] THEN coerceStr(Nullish(Prop(d, x), Unknown))
                             ELSE coerceStr(Prop(d, x))]))
            ELSE o
      o2 == With(o1, "labels",
                 OrElse(Prop(o1, "labels"),
                        IF IsType(type, SimpleTypes)
                        THEN Obj(DefaultLabels(type.v[1])) ELSE Obj(EmptyRec)))
      o3 == With(o2, "operation",
                 IF Prop(o2, "operation") \in Operations
                 THEN Prop(o2, "operation") ELSE Str(<<"+">>))
  IN With(o3, "answer", coerceStr(Prop(o3, "answer")))

\* one entry of out.steps.slice(0, 2).map(...)
normalizeStep(s) ==
  LET st == Spread(s)
      type == Str(ToUpperCase(JsString(OrElse(Prop(st, "type"), Str(<<"PPT">>)))))
  IN Obj(Reshape(With(st, "type", type), type))

\* a.slice(0, n) for an integer n; n = NaN slices to nothing
Slice(a, n) ==
  IF n.t = "nan" \/ n.v <= 0 THEN <<>>
  ELSE SubSeq(a, 1, IF n.v < Len(a) THEN n.v ELSE Len(a))

\* normalizeProblem with `out.id = genId()` in place of `if (!out.id) ...`
normalizeProblem_AlwaysNewId(p, ctx, rnd) ==
  LET out0 == With(Spread(p), "id", rnd.id)
      out2 == IF Falsy(Prop(out0, "createdAt"))
              THEN With(out0, "createdAt", rnd.now) ELSE out0
      out3 == With(out2, "grade", ToNumber(Nullish(Prop(out2, "grade"), ctx.grade)))
      type == Str(ToUpperCase(JsString(OrElse(Prop(out3, "type"), ctx.type))))
      out4 == With(out3, "type", type)
  IN IF IsType(type, {"DOS_OPERACIONES"}) /\ IsArray(Prop(out4, "steps"))
     THEN LET steps == Slice(Prop(out4, "steps").v, Num(2))
          IN Obj(With(out4, "steps",
                      Arr([i \in 1..Len(steps) |-> normalizeStep(steps[i])])))
     ELSE Obj(Reshape(out4, type))

\* normalizeProblem(p, {grade, type}); rnd holds what genId() and Date.now()
\* return in this call
normalizeProblem(p, ctx, rnd) ==
  LET out0 == Spread(p)
      out1 == IF Falsy(Prop(out0, "id")) THEN With(out0, "id", rnd.id) ELSE out0
      out2 == IF Falsy(Prop(out1, "createdAt"))
              THEN With(out1, "createdAt", rnd.now) ELSE out1
      out3 == With(out2, "grade", ToNumber(Nullish(Prop(out2, "grade"), ctx.grade)))
      type == Str(ToUpperCase(JsString(OrElse(Prop(out3, "type"), ctx.type))))
      out4 == With(out3, "type", type)
  IN IF IsType(type, {"DOS_OPERACIONES"}) /\ IsArray(Prop(out4, "steps"))
     THEN LET steps == Slice(Prop(out4, "steps").v, Num(2))
          IN Obj(With(out4, "steps",
                      Arr([i \in 1..Len(steps) |-> normalizeStep(steps[i])])))
     ELSE Obj(Reshape(out4, type))

(***************************************************************************)
(* generate-problem.js: the reply of the model and the handler, in the      *)
(* variant that has extractProblemsFromText and answers OPTIONS; the other *)
(* variant has the same clamping, coerceStr and normalizeProblem.          *)
(* The text of a reply is a sequence of tokens: a fence ```, a language    *)
(* tag, prose without brackets, a JSON document, or bracketed text that is *)
(* no JSON.                                                                *)
(***************************************************************************)
Fence == [k |-> "fence"]
LangTag == [k |-> "lang"]
Prose == [k |-> "prose"]
Broken == [k |-> "broken"]
JsonDoc(v) == [k |-> "json", v |-> v]

Indices(t, kinds) == {i \in 1..Len(t) : t[i].k \in kinds}
Lowest(S) == CHOOSE i \in S : \A j \in S : i <= j
Highest(S) == CHOOSE i \in S : \A j \in S : i >= j

\* JSON.parse of a token sequence: one JSON document, or "throw"
ParseTokens(t) ==
  IF Len(t) = 1 /\ t[1].k = "json" THEN t[1].v ELSE [t |-> "throw"]

\* the array extractProblemsFromText returns, or "throw"
extractProblemsFromText(text) ==
  LET fences == Indices(text, {"fence"})
      t1 == IF fences # {} /\ Highest(fences) > Lowest(fences)
            THEN LET inner == SubSeq(text, Lowest(fences) + 1, Highest(fences) - 1)
                 IN IF inner # <<>> /\ inner[1].k = "lang" THEN Tail(inner) ELSE inner
            ELSE text
      br == Indices(t1, {"json", "broken"})
      t2 == IF br # {} THEN SubSeq(t1, Lowest(br), Highest(br)) ELSE t1
      first == ParseTokens(t2)
      parsed == IF first.t = "throw"
                THEN ParseTokens(SelectSeq(t2, LAMBDA x : x.k # "fence"))
                ELSE first
  IN IF parsed.t = "throw" THEN parsed
     ELSE IF IsArray(parsed) THEN parsed
     ELSE Arr(<<parsed>>)

\* what callGemini returns for an answer of the model service
callGemini(answer) ==
  IF answer.kind = "threw" THEN [error |-> "fetch failed"]
  ELSE IF answer.kind = "status" THEN [error |-> "Gemini error"]
  ELSE LET problems == extractProblemsFromText(answer.text)
       IN IF problems.t = "throw" THEN [error |-> "Unexpected token"]
          ELSE [problems |-> problems.v]

\* what genId() and Date.now() return for the i-th record of a response
RndAt(i) == [id |-> Str(<<"id">> \o NatToDigits(i)), now |-> Num(1700)]

\* the handler up to its call of the model service
genEntry(method, body, key) ==
  IF method = "OPTIONS" THEN Json(200, [text |-> "ok"])
  ELSE IF method # "POST" THEN Json(405, [error |-> "Method not allowed"])
  ELSE IF ~body.json THEN Json(400, [error |-> "Bad request"])
  ELSE LET grade == Clamp(Get(body.val, "grade"), MaxGrade)
           type == Str(ToUpperCase(JsString(OrElse(Get(body.val, "type"),
                                                   Str(<<"PPT">>)))))
           theme == Str(JsString(OrElse(Get(body.val, "theme"), Str(<<>>))))
           count == Clamp(Get(body.val, "count"), MaxCount)
           args == [grade |-> grade, type |-> type, theme |-> theme, count |-> count]
       IN IF ~key
          THEN [kind |-> "respond",
                resp |-> Response(500, [error |-> "Missing GEMINI_API_KEY"]),
                args |-> args @@ [prompt |-> buildPrompt(args)]]
          ELSE [kind |-> "callGemini", resp |-> NoResp,
                args |-> args @@ [prompt |-> buildPrompt(args)]]

\* the handler after callGemini returned
genRespond(result, args) ==
  IF "error" \in DOMAIN result THEN Response(500, [error |-> result.error])
  ELSE LET cut == Slice(result.problems, args.count)
           arr == [i \in 1..Len(cut) |->
                     normalizeProblem(cut[i], [grade |-> args.grade, type |-> args.type],
                                      RndAt(i))]
       IN Response(200, [problem |-> IF Len(arr) > 0 THEN arr[1] ELSE Null,
                         problems |-> arr])

(***************************************************************************)
(* State.                                                                  *)
(***************************************************************************)
VARIABLES
  env,      \* process.env: which credentials are set
  remote,   \* the remote file: exists, content, sha
  req,      \* req[r]: position of request r in the handler, its method and body
  resp,     \* resp[r]: the response of request r
  ext,      \* ext[r]: what the hosting API did for request r
  known,    \* the hashes clients have been told
  gen,      \* the generation request: position in the handler, clamped inputs
  gresp,    \* the response of the generation request
  norm      \* a run of normalizeProblem: input, fallback context, result

pvars == <<remote, req, resp, ext, known>>
gvars == <<gen, gresp>>
vars == <<env, remote, req, resp, ext, known, gen, gresp, norm>>

Reqs == 1..NumReqs
Methods == {"OPTIONS", "GET", "POST", "DELETE"}

NoBody == [json |-> FALSE]
Idle == [pc |-> "idle", method |-> "", body |-> NoBody, shape |-> "none"]
NoExt == [kind |-> "none", calls |-> 0, carried |-> Undefined, before |-> Null,
          after |-> Null, pending |-> {}]

\* the problems property of a posted body: absent, an array, or not an array
BodyProblems == {Undefined, Str(<<"x">>)} \cup {Arr(a) : a \in ProblemArrays}
BodyShas == {Undefined, Str(<<>>)} \cup known
BodyMessages == {Undefined}

Fields(problems, sha, message) ==
  LET P == IF problems = Undefined THEN EmptyRec ELSE [problems |-> problems]
      S == IF sha = Undefined THEN EmptyRec ELSE [sha |-> sha]
      M == IF message = Undefined THEN EmptyRec ELSE [message |-> message]
  IN P @@ S @@ M

\* the bodies a client posts: text that is no JSON, null, or an object
Bodies ==
  {[json |-> FALSE], [json |-> TRUE, val |-> Null]}
  \cup {[json |-> TRUE, val |-> Obj(Fields(p, s, m))] :
          p \in BodyProblems, s \in BodyShas, m \in BodyMessages}

\* what a request carried: no body read, text that is no JSON, JSON without a
\* problems array, JSON with one
BodyShape(method, body) ==
  IF method # "POST" THEN "none"
  ELSE IF ~body.json THEN "unparseable"
  ELSE IF IsArray(Get(body.val, "problems")) THEN "array"
  ELSE "noArray"

InitialTexts == {JSONStringify(a) : a \in ProblemArrays} \cup {CorruptText, EmptyText}

\* the hashes a response tells its client
Told(response) ==
  IF response.status = 200 /\ "sha" \in DOMAIN response.body
  THEN {response.body.sha} ELSE {}

\* no request is in progress; clients have fetched the file, if there is one
InitPersist ==
  /\ remote \in {NoFile} \cup {FileOf(t) : t \in InitialTexts}
  /\ req = [r \in Reqs |-> Idle]
  /\ resp = [r \in Reqs |-> NoResp]
  /\ ext = [r \in Reqs |-> NoExt]
  /\ known = IF remote.exists THEN {remote.sha} ELSE {}

GenIdle == [pc |-> "idle", method |-> "", parsed |-> FALSE, args |-> EmptyRec,
            calls |-> 0, outcome |-> "none"]
NormIdle == [pc |-> "idle"]

Init ==
  /\ env \in [GITHUB_TOKEN : BOOLEAN, GEMINI_API_KEY : {TRUE}]
  /\ InitPersist
  /\ gen = GenIdle
  /\ gresp = NoResp
  /\ norm = NormIdle

\* request r arrives and the handler runs to its first await of the hosting API
Receive(r) ==
  /\ req[r].pc = "idle"
  /\ \A q \in Reqs : q < r => req[q].pc # "idle"
  /\ \E method \in Methods :
       \E body \in IF method = "POST" THEN Bodies ELSE {NoBody} :
         LET e == handlerEntry(method, body, env.GITHUB_TOKEN)
         IN /\ req' = [req EXCEPT ![r] =
                         IF e.kind = "respond"
                         THEN [pc |-> "done", method |-> method, body |-> NoBody,
                               shape |-> BodyShape(method, body)]
                         ELSE [pc |-> e.kind, method |-> method, body |-> body,
                               shape |-> BodyShape(method, body)]]
            /\ resp' = [resp EXCEPT ![r] = e.resp]
  /\ UNCHANGED <<env, remote, ext, known, gvars, norm>>

\* the slots whose PUT is in flight, other than r
PendingPuts(r) == {q \in Reqs \ {r} : req[q].pc = "putFile"}

\* the handler of r is over; what the hosting API did for it is recorded
Finish(r, pc, response, kind, carried, after) ==
  /\ req' = [req EXCEPT ![r] = [pc |-> pc, method |-> @.method, body |-> NoBody,
                                shape |-> @.shape]]
  /\ resp' = [resp EXCEPT ![r] = response]
  /\ ext' = [ext EXCEPT ![r] = [kind |-> kind, calls |-> @.calls + 1,
                                carried |-> carried, before |-> remote.sha,
                                after |-> after, pending |-> PendingPuts(r)]]
  /\ known' = known \cup Told(response)

\* the fetch of getFile is answered and the GET branch runs to its response
GetFileCall(r) ==
  /\ req[r].pc = "getFile"
  /\ \/ Finish(r, "done", getRespond(getFile(GitHubGet(remote))),
               IF remote.exists THEN "read" ELSE "notFound", Undefined, remote.sha)
     \/ \E st \in UpstreamStatuses, tx \in UpstreamTexts :
          Finish(r, "done", getRespond(getFile(UpstreamFailure(st, tx))), "failed",
                 Undefined, remote.sha)
     \/ \* fetch or res.json() throws: nothing catches it, no response is built
        Finish(r, "threw", NoResp, "threw", Undefined, remote.sha)
  /\ UNCHANGED <<env, remote, gvars, norm>>

\* the fetch of putFile is answered and the POST branch runs to its response
PutFileCall(r) ==
  /\ req[r].pc = "putFile"
  /\ LET args == PostArgs(req[r].body.val)
         body == putBody(args)
     IN \/ /\ remote' = GitHubPutFile(remote, body)
           /\ Finish(r, "done", postRespond(putFile(GitHubPutReply(remote, body))),
                     IF ShaMatches(remote, body) THEN "stored" ELSE "rejected",
                     args.sha, remote'.sha)
        \/ /\ \E st \in UpstreamStatuses, tx \in UpstreamTexts :
                Finish(r, "done", postRespond(putFile(UpstreamFailure(st, tx))),
                       "failed", args.sha, remote.sha)
           /\ UNCHANGED remote
        \/ \* fetch or res.json() throws: the catch block answers
           /\ Finish(r, "done", postCatch, "threw", args.sha, remote.sha)
           /\ UNCHANGED remote
  /\ UNCHANGED <<env, gvars, norm>>

Next == \E r \in Reqs : Receive(r) \/ GetFileCall(r) \/ PutFileCall(r)

\* the persistence endpoint, serving NumReqs requests
Spec == Init /\ [][Next]_vars

(***************************************************************************)
(* The generation endpoint serving one request.                            *)
(***************************************************************************)
GradeInputs ==
  {Undefined, Null, Num(0), Num(0 - 1), Num(3), Num(6), Num(7), Str(<<"4">>),
   Str(<<"abc">>), Bool(TRUE), Obj(EmptyRec)}
CountInputs ==
  {Undefined, Num(0), Num(0 - 2), Num(2), Num(10), Num(11), Str(<<"3">>),
   Str(<<"many">>)}
TypeInputs == {Undefined, Str(<<"ppt">>), Str(<<"DOS_OPERACIONES">>)}
ThemeInputs == {Undefined, Str(<<"futbol">>)}

GenFields(grade, count, type, theme) ==
  LET G == IF grade = Undefined THEN EmptyRec ELSE [grade |-> grade]
      C == IF count = Undefined THEN EmptyRec ELSE [count |-> count]
      T == IF type = Undefined THEN EmptyRec ELSE [type |-> type]
      H == IF theme = Undefined THEN EmptyRec ELSE [theme |-> theme]
  IN G @@ C @@ T @@ H

GenBodies ==
  {[json |-> FALSE], [json |-> TRUE, val |-> Null]}
  \cup {[json |-> TRUE, val |-> Obj(GenFields(g, c, t, h))] :
          g \in GradeInputs, c \in CountInputs, t \in TypeInputs, h \in ThemeInputs}

\* records as the model writes them
RawSimple ==
  Obj([question |-> Str(<<"q">>),
       data |-> Obj([p1 |-> Str(<<"1", "2", ",", "5">>), p2 |-> Num(3)]),
       answer |-> Str(<<"$", "1", "2">>)])
RawStep1 ==
  Obj([type |-> Str(<<"ppt">>), operation |-> Str(<<"x">>),
       data |-> Obj([p1 |-> Str(<<"4">>), p2 |-> Str(<<"1", ".", "2", ".", "3">>),
                     t |-> Unknown]),
       answer |-> Str(<<"1", "2", ",", "5">>)])
RawStep2 ==
  Obj([type |-> Str(<<"UVT">>), operation |-> Str(<<"*">>),
       labels |-> Obj([u |-> "a", v |-> "b", t |-> "c"]),
       data |-> Obj([u |-> RESULTADO_ANTERIOR, v |-> Num(2)])])
RawTwoSteps ==
  Obj([id |-> Str(<<"k">>), createdAt |-> Num(5), grade |-> Num(4),
       type |-> Str(<<"DOS_OPERACIONES">>),
       data |-> Obj([p1 |-> Str(<<"7">>)]),
       steps |-> Arr(<<RawStep1, RawStep2, RawStep1>>)])

\* the texts the model service replies
ReplyTexts ==
  {<<JsonDoc(Arr(<<>>))>>,
   <<JsonDoc(Arr(<<RawSimple, RawTwoSteps>>))>>,
   <<Fence, LangTag, JsonDoc(Arr(<<RawTwoSteps, RawSimple, Null>>)), Fence>>,
   <<Prose, JsonDoc(RawSimple), Prose>>,
   <<Prose, Fence, JsonDoc(Arr(<<RawSimple>>)), Prose>>,
   <<Prose>>,
   <<Broken>>,
   <<>>}

GeminiAnswers ==
  {[kind |-> "threw"], [kind |-> "status"]}
  \cup {[kind |-> "ok", text |-> t] : t \in ReplyTexts}

InitGen ==
  /\ env \in [GITHUB_TOKEN : {TRUE}, GEMINI_API_KEY : BOOLEAN]
  /\ remote = NoFile
  /\ req = [r \in Reqs |-> Idle]
  /\ resp = [r \in Reqs |-> NoResp]
  /\ ext = [r \in Reqs |-> NoExt]
  /\ known = {}
  /\ gen = GenIdle
  /\ gresp = NoResp
  /\ norm = NormIdle

\* the request arrives and the handler runs to its call of the model service
GenReceive ==
  /\ gen.pc = "idle"
  /\ \E method \in {"OPTIONS", "GET", "POST"} :
       \E body \in IF method = "POST" THEN GenBodies ELSE {NoBody} :
         LET e == genEntry(method, body, env.GEMINI_API_KEY)
         IN /\ gen' = [pc |-> IF e.kind = "respond" THEN "done" ELSE e.kind,
                       method |-> method,
                       parsed |-> method = "POST" /\ body.json,
                       args |-> e.args, calls |-> 0, outcome |-> "none"]
            /\ gresp' = e.resp
  /\ UNCHANGED <<env, pvars, norm>>

\* the model service answers and the handler runs to its response
GeminiCall ==
  /\ gen.pc = "callGemini"
  /\ \E answer \in GeminiAnswers :
       /\ gen' = [gen EXCEPT !.pc = "done", !.calls = @ + 1, !.outcome = answer.kind]
       /\ gresp' = genRespond(callGemini(answer), gen.args)
  /\ UNCHANGED <<env, pvars, norm>>

NextGen == GenReceive \/ GeminiCall

SpecGen == InitGen /\ [][NextGen]_vars

(***************************************************************************)
(* normalizeProblem applied to one parsed object, and again to its result. *)
(***************************************************************************)
\* longest string of significant characters tried as a numeric field
MaxStrLen == 2

CoerceChars == {"1", "2", ",", ".", "-", "?", "$"}

RECURSIVE StringsUpTo(_)
StringsUpTo(n) ==
  IF n = 0 THEN {<<>>}
  ELSE LET shorter == StringsUpTo(n - 1)
       IN shorter \cup {Append(x, c) : x \in {y \in shorter : Len(y) = n - 1},
                                       c \in CoerceChars}

\* values a numeric field may arrive with
CoerceInputs ==
  {Undefined, Null, Num(12), Num(0 - 3), NaN, Bool(TRUE), RESULTADO_ANTERIOR,
   Str(<<"1", "2", ",", "5">>), Str(<<"$", "1", "2">>),
   Str(<<"1", ",", "2", ",", "3">>), Str(<<"RESULTADO_ANTERIOR", "$">>)}
  \cup {Str(x) : x \in StringsUpTo(MaxStrLen)}

TypeSamples ==
  {Undefined, Str(<<"PPT">>), Str(<<"ppt">>), Str(<<"UVT">>), Str(<<"COMPARACION">>),
   Str(<<"CAMBIO">>), Str(<<"DOS_OPERACIONES">>), Str(<<"OTRO">>)}

DataSamples ==
  {Undefined, Obj(EmptyRec), Str(<<"x">>),
   Obj([p1 |-> Str(<<"1", "2", ",", "5">>), p2 |-> Str(<<"$", "1", "2">>),
        t |-> Unknown]),
   Obj([p1 |-> RESULTADO_ANTERIOR, p2 |-> Num(3)]),
   Obj([p1 |-> Str(<<"1", ".", "2", ".", "3">>), p2 |-> Str(<<"?", "5">>),
        t |-> Null]),
   Obj([u |-> Str(<<"4">>), v |-> Str(<<"-">>), t |-> Str(<<"8">>)]),
   Obj([cm |-> Str(<<"9">>), cmen |-> Str(<<"4">>), d |-> Unknown]),
   Obj([ci |-> Str(<<"9">>), c |-> Str(<<"4">>), cf |-> Unknown, extra |-> Num(1)])}

StepsSamples ==
  {Undefined, Str(<<"x">>), Arr(<<>>), Arr(<<RawStep2>>), Arr(<<RawStep1, RawStep2>>),
   Arr(<<RawStep2, RawStep1, RawStep1>>), Arr(<<Null, RawStep1, RawStep2, RawStep2>>)}

AnswerSamples == {Undefined, Unknown, Str(<<"1", "2", ",", "5">>), Num(7)}
OperationSamples == {Undefined, Str(<<"-">>), Str(<<"x">>)}

\* id, createdAt, grade and labels as they arrive together
MiscSamples ==
  {EmptyRec,
   [id |-> Str(<<"k">>), createdAt |-> Num(5), grade |-> Num(4),
    labels |-> Obj([p1 |-> "a", p2 |-> "b", t |-> "c"])],
   [id |-> Str(<<>>), createdAt |-> Num(0), grade |-> Str(<<"5">>)]}

NormFields(type, data, steps, answer, operation) ==
  LET T == IF type = Undefined THEN EmptyRec ELSE [type |-> type]
      D == IF data = Undefined THEN EmptyRec ELSE [data |-> data]
      S == IF steps = Undefined THEN EmptyRec ELSE [steps |-> steps]
      A == IF answer = Undefined THEN EmptyRec ELSE [answer |-> answer]
      O == IF operation = Undefined THEN EmptyRec ELSE [operation |-> operation]
  IN T @@ D @@ S @@ A @@ O

\* the parsed objects normalizeProblem is tried on
NormInputs ==
  {Null}
  \cup {Obj(NormFields(ty, da, st, an, op) @@ mi) :
          ty \in TypeSamples, da \in DataSamples, st \in StepsSamples,
          an \in AnswerSamples, op \in OperationSamples, mi \in MiscSamples}
  \cup {Obj([type |-> ty, data |-> Obj([p1 |-> v, t |-> v]), answer |-> v]) :
          ty \in {Str(<<"PPT">>)}, v \in CoerceInputs}
  \cup {Obj([type |-> Str(<<"DOS_OPERACIONES">>),
             steps |-> Arr(<<Obj([data |-> Obj([p1 |-> v, t |-> v]), answer |-> v])>>)]) :
          v \in CoerceInputs}

\* the fallback {grade, type} the handler passes
NormContexts ==
  {[grade |-> Num(3), type |-> Str(<<"PPT">>)],
   [grade |-> NaN, type |-> Str(<<"DOS_OPERACIONES">>)]}

\* what genId() and Date.now() may return
Rnds == {[id |-> Str(<<"id", "1">>), now |-> Num(1700)],
         [id |-> Str(<<"id", "2">>), now |-> Num(1701)]}

InitNorm ==
  /\ env \in [GITHUB_TOKEN : {TRUE}, GEMINI_API_KEY : {TRUE}]
  /\ remote = NoFile
  /\ req = [r \in Reqs |-> Idle]
  /\ resp = [r \in Reqs |-> NoResp]
  /\ ext = [r \in Reqs |-> NoExt]
  /\ known = {}
  /\ gen = GenIdle
  /\ gresp = NoResp
  /\ norm \in {[pc |-> "input", p |-> p, ctx |-> c] : p \in NormInputs, c \in NormContexts}

\* normalizeProblem(p, ctx)
Normalize ==
  /\ norm.pc = "input"
  /\ \E rnd \in Rnds :
       norm' = [pc |-> "once", p |-> norm.p, ctx |-> norm.ctx,
                out |-> normalizeProblem(norm.p, norm.ctx, rnd)]
  /\ UNCHANGED <<env, pvars, gvars>>

\* normalizeProblem(normalizeProblem(p, ctx), ctx)
NormalizeAgain ==
  /\ norm.pc = "once"
  /\ \E rnd \in Rnds :
       norm' = [pc |-> "twice", p |-> norm.p, ctx |-> norm.ctx, out |-> norm.out,
                out2 |-> normalizeProblem(norm.out, norm.ctx, rnd)]
  /\ UNCHANGED <<env, pvars, gvars>>

NextNorm == Normalize \/ NormalizeAgain

SpecNorm == InitNorm /\ [][NextNorm]_vars

(***************************************************************************)
(* Properties of the persistence endpoint.                                 *)
(***************************************************************************)
Is2xx(status) == status \in 200..299

\* r was answered 200 {ok: true, sha}
Ok200(r) ==
  /\ resp[r].status = 200
  /\ DOMAIN resp[r].body = {"ok", "sha"}
  /\ resp[r].body.ok = TRUE

\* r was answered a non-2xx status and a body whose conflict flag is true
ConflictResp(r) ==
  /\ ~Is2xx(resp[r].status)
  /\ DOMAIN resp[r].body = {"error", "conflict"}
  /\ resp[r].body.conflict = TRUE

\* r is a POST whose PUT the hosting API processed: it stored or rejected it
Processed(r) ==
  /\ req[r].pc = "done"
  /\ req[r].method = "POST"
  /\ ext[r].kind \in {"stored", "rejected"}

\* the PUTs of r and q were in flight at the same time
Concurrent(r, q) == q \in ext[r].pending \/ r \in ext[q].pending

\* the hash r carried was the hash of the file when its PUT was applied
CarriedCurrent(r) ==
  IF ext[r].before = Null THEN ext[r].carried = Undefined
  ELSE ext[r].carried = ext[r].before

\* C1 (as claimed): of two concurrent POSTs whose PUTs the hosting API
\* processed, at most one is answered 200 {ok: true, sha} and the other is
\* answered a non-2xx status with conflict: true.
C1_AtMostOneSucceeds ==
  \A r, q \in Reqs :
    (r # q /\ Processed(r) /\ Processed(q) /\ Concurrent(r, q))
      => /\ ~(Ok200(r) /\ Ok200(q))
         /\ (ConflictResp(r) \/ ConflictResp(q))

\* C1 (amended): of two concurrent POSTs whose PUTs the hosting API
\* processed, each is answered 200 {ok: true, sha} exactly when the hash it
\* carried is the hash of the file at the moment its PUT is applied (no hash
\* and no file, for a creation); otherwise it is answered a non-2xx status
\* with conflict: true and its PUT leaves the hash of the file as it was.
C1_SucceedsIffCarriedCurrent ==
  \A r, q \in Reqs :
    (r # q /\ Processed(r) /\ Processed(q) /\ Concurrent(r, q))
      => /\ Ok200(r) <=> CarriedCurrent(r)
         /\ ~Ok200(r) => (ConflictResp(r) /\ ext[r].after = ext[r].before)

\* two concurrent POSTs carried the same hash; the first changed the file and
\* was answered 200, the other was answered 409 with conflict: true
C1_Witness ==
  \E r, q \in Reqs :
    /\ r # q /\ Processed(r) /\ Processed(q) /\ q \in ext[r].pending
    /\ ext[r].carried = ext[q].carried
    /\ Ok200(r) /\ ext[r].after # ext[r].before
    /\ ConflictResp(q) /\ resp[q].status = 409

\* request r takes the step in which the hosting API processes its PUT
PutProcessed(r) ==
  /\ req[r].pc = "putFile"
  /\ req'[r].pc = "done"
  /\ ext'[r].kind \in {"stored", "rejected"}

\* the hash the pending POST r supplies
Supplied(r) == PostArgs(req[r].body.val).sha

\* C2: a POST that supplies a hash the file no longer has is answered the
\* failure status of the hosting API, a non-2xx one, and the body
\* {error, conflict: true}, and the remote file is after the request what it
\* was before.
C2_StaleShaConflict ==
  [][\A r \in Reqs :
       (PutProcessed(r) /\ remote.exists /\ ~Falsy(Supplied(r))
          /\ Supplied(r) # remote.sha)
         => /\ resp'[r].status = GitHubPutReply(remote, putBody(PostArgs(req[r].body.val))).status
            /\ ~Is2xx(resp'[r].status)
            /\ DOMAIN resp'[r].body = {"error", "conflict"}
            /\ resp'[r].body.conflict = TRUE
            /\ resp'[r].body.error # MsgEmpty
            /\ remote' = remote]_vars

\* a POST carried a hash the file no longer had and was answered 409 with
\* conflict: true
C2_Witness ==
  \E r \in Reqs :
    /\ Processed(r) /\ ext[r].kind = "rejected"
    /\ ext[r].carried # Undefined /\ ext[r].before # Null
    /\ ext[r].carried # ext[r].before
    /\ resp[r].status = 409 /\ ConflictResp(r)

\* request r supplies the current hash of the file and the API processes it
PutCurrent(r) ==
  /\ PutProcessed(r)
  /\ remote.exists
  /\ Supplied(r) = remote.sha

\* C3 (as claimed): a POST that supplies the current hash is answered 200
\* {ok: true, sha}, the sha returned is the hash of the file after the write
\* and differs from the sha supplied, whatever array is written.
C3_NewShaAlwaysDiffers ==
  [][\A r \in Reqs :
       PutCurrent(r)
         => /\ resp'[r].status = 200
            /\ DOMAIN resp'[r].body = {"ok", "sha"}
            /\ resp'[r].body.ok = TRUE
            /\ resp'[r].body.sha = remote'.sha
            /\ resp'[r].body.sha # Supplied(r)]_vars

\* C3 (amended): a POST that supplies the current hash is answered 200
\* {ok: true, sha}, the file then holds the serialization of the array
\* posted, the sha returned is the hash of the file after the write, and it
\* differs from the sha supplied exactly when the serialization written
\* differs from the content the file had.
C3_NewShaDiffersIffContentDiffers ==
  [][\A r \in Reqs :
       PutCurrent(r)
         => /\ resp'[r].status = 200
            /\ DOMAIN resp'[r].body = {"ok", "sha"}
            /\ resp'[r].body.ok = TRUE
            /\ remote'.content = PostArgs(req[r].body.val).content
            /\ resp'[r].body.sha = remote'.sha
            /\ (resp'[r].body.sha # Supplied(r))
                 <=> (PostArgs(req[r].body.val).content # remote.content)]_vars

\* a POST carried the current hash, changed the file and was told a new hash
C3_Witness ==
  \E r \in Reqs :
    /\ Processed(r) /\ ext[r].kind = "stored"
    /\ ext[r].before # Null /\ ext[r].carried = ext[r].before
    /\ Ok200(r) /\ resp[r].body.sha = ext[r].after
    /\ resp[r].body.sha # ext[r].carried

\* C4 (as claimed): a POST whose body is no JSON, or JSON without a problems
\* array, is answered 400 and no write is sent to the remote file.
C4_MalformedBody400 ==
  \A r \in Reqs :
    (req[r].pc = "done" /\ req[r].method = "POST"
       /\ req[r].shape \in {"unparseable", "noArray"}
       /\ env.GITHUB_TOKEN /\ ext[r].kind \notin {"failed", "threw"})
      => /\ resp[r].status = 400
         /\ ext[r].calls = 0
         /\ ext[r].kind # "stored"

\* C5 (as claimed): a request whose method is not GET, POST or OPTIONS is
\* answered 405 whatever the configuration, and no call to the hosting API
\* is made for it.
C5_OtherMethod405 ==
  \A r \in Reqs :
    (req[r].pc # "idle" /\ req[r].method \notin {"GET", "POST", "OPTIONS"})
      => /\ req[r].pc = "done"
         /\ resp[r].status = 405
         /\ ext[r].calls = 0

\* C5 (amended): a request whose method is not GET, POST or OPTIONS is
\* answered 405 when the hosting-API credential is configured and 500 when it
\* is missing; in both cases no call to the hosting API is made for it.
C5_OtherMethod405Or500 ==
  \A r \in Reqs :
    (req[r].pc # "idle" /\ req[r].method \notin {"GET", "POST", "OPTIONS"})
      => /\ req[r].pc = "done"
         /\ resp[r].status = IF env.GITHUB_TOKEN THEN 405 ELSE 500
         /\ resp[r].body.error = IF env.GITHUB_TOKEN THEN "Method not allowed"
                                 ELSE "Missing GITHUB_TOKEN"
         /\ ext[r].calls = 0

\* a DELETE was answered 405 without a call to the hosting API
C5_Witness ==
  \E r \in Reqs :
    /\ req[r].pc = "done" /\ req[r].method = "DELETE"
    /\ resp[r].status = 405 /\ ext[r].calls = 0

\* C7: a GET when the remote file does not exist is answered 404 with
\* {problems: [], sha: null, notFound: true}; a GET when it exists is
\* answered 200 with the current hash of the file; the GET leaves the remote
\* file as it was.
C7_GetReportsFile ==
  [][\A r \in Reqs :
       (req[r].pc = "getFile" /\ req'[r].pc # "getFile")
         => /\ remote' = remote
            /\ ext'[r].kind = "notFound"
                 => resp'[r] = Response(404, [problems |-> <<>>, sha |-> Null,
                                              notFound |-> TRUE])
            /\ ext'[r].kind = "read"
                 => /\ resp'[r].status = 200
                    /\ DOMAIN resp'[r].body = {"problems", "sha"}
                    /\ resp'[r].body.sha = remote.sha]_vars

\* a GET found no file and was answered 404 with the empty collection
C7_Witness ==
  \E r \in Reqs :
    /\ req[r].pc = "done" /\ req[r].method = "GET"
    /\ ext[r].kind = "notFound" /\ ~remote.exists
    /\ resp[r].status = 404 /\ resp[r].body.notFound = TRUE

\* C6 (as claimed): a failure of an external API is surfaced as an upstream
\* error: a non-success status of the hosting API is the status of the
\* response, and when the network call or the decoding of its reply throws
\* (persistence GET or POST, model call of a generation request) the request
\* is answered 500 with the error message, not 400 "Bad request" and not
\* left unanswered.
C6_UpstreamFailureSurfaced ==
  /\ \A r \in Reqs :
       ext[r].kind = "failed"
         => (req[r].pc = "done" /\ resp[r].status \in UpstreamStatuses)
  /\ \A r \in Reqs :
       ext[r].kind = "threw"
         => /\ req[r].pc = "done"
            /\ resp[r].status = 500
            /\ "error" \in DOMAIN resp[r].body
            /\ resp[r].body.error # "Bad request"
  /\ gen.outcome \in {"threw", "status"}
       => (gen.pc = "done" /\ gresp.status = 500 /\ "error" \in DOMAIN gresp.body)

(***************************************************************************)
(* Properties of the generation endpoint and of the normaliser.            *)
(***************************************************************************)
InRange(x, lo, hi) == x.t = "num" /\ x.v \in lo..hi

\* C8 (as claimed): for every body that parses as JSON, the grade used for the
\* prompt and as normalisation fallback is a number in 1..6 and the count
\* used for the prompt and to cap the result is a number in 1..10.
C8_GradeAndCountClamped ==
  (gen.parsed /\ gen.pc # "idle")
    => /\ InRange(gen.args.grade, 1, MaxGrade)
       /\ InRange(gen.args.count, 1, MaxCount)
       /\ gen.args.prompt.grade = gen.args.grade
       /\ InRange(gen.args.prompt.n, 1, MaxCount)

\* the record normalizeProblem returned
Out == norm.out.v

\* C9 (as claimed): a record whose resolved type is DOS_OPERACIONES comes out
\* of normalizeProblem with a steps sequence of at most 2 entries and without
\* a top-level data field.
C9_TwoStepsNoData ==
  (norm.pc \in {"once", "twice"} /\ IsType(Out.type, {"DOS_OPERACIONES"}))
    => /\ "steps" \in DOMAIN Out
       /\ IsArray(Out.steps)
       /\ Len(Out.steps.v) <= 2
       /\ "data" \notin DOMAIN Out

\* s spells a decimal number: -?digits(.digits)?
IsDecimal(s) ==
  LET body == IF s # <<>> /\ s[1] = "-" THEN Tail(s) ELSE s
      dots == {i \in 1..Len(body) : body[i] = "."}
  IN /\ body # <<>>
     /\ \A i \in 1..Len(body) : body[i] \in Digits \cup {"."}
     /\ Cardinality(dots) <= 1
     /\ \A i \in dots : 1 < i /\ i < Len(body)

\* x is a decimal numeric string, "?" or RESULTADO_ANTERIOR
NumericField(x) ==
  x = Unknown \/ x = RESULTADO_ANTERIOR \/ (x.t = "str" /\ IsDecimal(x.v))

\* data and answer of the record or step o, where present, are numeric fields
NumericFields(o) ==
  /\ "answer" \in DOMAIN o => NumericField(o.answer)
  /\ "data" \in DOMAIN o
       => /\ o.data.t = "obj"
          /\ \A k \in DOMAIN o.data.v : NumericField(o.data.v[k])

\* C10 (as claimed): in every record normalizeProblem returns, each value of
\* data (top level and in each step) and answer is a decimal numeric string,
\* "?" or RESULTADO_ANTERIOR; "12,5" becomes "12.5", "$12" becomes "12", and
\* the two sentinels pass through unchanged.
C10_NumericFields ==
  /\ coerceStr(Str(<<"1", "2", ",", "5">>)) = Str(<<"1", "2", ".", "5">>)
  /\ coerceStr(Str(<<"$", "1", "2">>)) = Str(<<"1", "2">>)
  /\ coerceStr(Unknown) = Unknown
  /\ coerceStr(RESULTADO_ANTERIOR) = RESULTADO_ANTERIOR
  /\ norm.pc \in {"once", "twice"}
       => /\ NumericFields(Out)
          /\ ("steps" \in DOMAIN Out /\ IsArray(Out.steps))
               => \A i \in 1..Len(Out.steps.v) : NumericFields(Out.steps.v[i].v)

\* the record the second application of normalizeProblem returned
Out2 == norm.out2.v

PutAnswered(r) == req[r].pc = "putFile" /\ req'[r].pc = "done"

\* in this step the POST r is answered 200 {ok: true, ...}: its write succeeded
WriteSucceeds(r) ==
  /\ PutAnswered(r)
  /\ resp'[r].status = 200
  /\ "ok" \in DOMAIN resp'[r].body

\* the sha property of the body the pending POST r carries, as the caller sent it
CallerSha(r) == Get(req[r].body.val, "sha")

\* the problems property of the body the pending POST r carries
CallerProblems(r) == Get(req[r].body.val, "problems")

\* the body of the PUT the handler sends for the pending POST r
SentBody(r) == putBody(PostArgs(req[r].body.val))

\* a write succeeds only on the hash the file has at that moment (on no hash,
\* absent or empty, when there is no file), the PUT carries the caller's hash
\* and no other, a step that changes the remote file is a successful write,
\* and the version a successful write replaces is one whose hash clients
\* were told
WriteOnlyOnCurrentSha ==
  [][/\ \A r \in Reqs :
          WriteSucceeds(r)
            => /\ IF remote.exists THEN CallerSha(r) = remote.sha
                  ELSE Falsy(CallerSha(r))
               /\ remote.exists => remote.sha \in known
     /\ \A r \in Reqs :
          PutAnswered(r)
            => IF Falsy(CallerSha(r)) THEN "sha" \notin DOMAIN SentBody(r)
               ELSE SentBody(r).sha = CallerSha(r)
     /\ remote' # remote => \E r \in Reqs : WriteSucceeds(r)]_vars

\* a successful write stores the serialization of the array the handler
\* derives from the body: its problems array, the empty array when it has none
WriteReplacesWhole ==
  [][\A r \in Reqs :
       WriteSucceeds(r)
         => remote'.content = JSONStringify(IF IsArray(CallerProblems(r))
                                            THEN CallerProblems(r).v ELSE <<>>)]_vars

\* C12 (as claimed): across any interleaving of GET and POST requests, a write
\* succeeds only when the sha it supplied is the hash of the remote file at
\* that moment (or none was supplied and there is no file yet); the PUT
\* carries the caller's sha and never the current one in its place; the
\* remote file changes only by a successful POST and then holds exactly the
\* problems array that POST carried; and no successful write replaces a
\* version whose hash no client was told.
C12_CompareAndSwapWholeArray ==
  [][/\ \A r \in Reqs :
          WriteSucceeds(r)
            => /\ IF remote.exists THEN CallerSha(r) = remote.sha
                  ELSE Falsy(CallerSha(r))
               /\ remote.exists => remote.sha \in known
               /\ IsArray(CallerProblems(r))
               /\ remote'.content = JSONStringify(CallerProblems(r).v)
     /\ \A r \in Reqs :
          PutAnswered(r)
            => IF Falsy(CallerSha(r)) THEN "sha" \notin DOMAIN SentBody(r)
               ELSE SentBody(r).sha = CallerSha(r)
     /\ remote' # remote => \E r \in Reqs : WriteSucceeds(r)]_vars

(***************************************************************************)
(* Single-shot external calls.                                             *)
(***************************************************************************)
\* the handler of r is over: it returned a response or ended by an exception
Terminated(r) == req[r].pc \in {"done", "threw"}

\* the handler of r waits for the answer of the hosting API
Awaiting(r) == req[r].pc \in {"getFile", "putFile"}

\* what the hosting API can have done for a request, by method
KindsOf(method) ==
  CASE method = "GET" -> {"none", "read", "notFound", "failed", "threw"}
    [] method = "POST" -> {"none", "stored", "rejected", "failed", "threw"}
    [] OTHER -> {"none"}

\* no request issues a second call: a GET reads at most once and never
\* writes, a POST writes at most once and never reads, a generation request
\* calls the model at most once, and a call is counted only when the request
\* is over
SingleShot ==
  /\ \A r \in Reqs :
       /\ ext[r].calls <= 1
       /\ req[r].pc # "idle" => ext[r].kind \in KindsOf(req[r].method)
       /\ ext[r].calls = 1 <=> ext[r].kind # "none"
       /\ ext[r].calls = 1 => Terminated(r)
  /\ gen.calls <= 1
  /\ gen.calls = 1 => gen.pc = "done"

\* a request whose API credential is missing (a GET or POST of the
\* persistence endpoint, a POST with a JSON body of the generation endpoint)
\* is answered 500 and no external call is issued for it
MissingCredential500 ==
  /\ \A r \in Reqs :
       (~env.GITHUB_TOKEN /\ req[r].method \in {"GET", "POST"})
         => /\ req[r].pc = "done"
            /\ resp[r].status = 500
            /\ ext[r].calls = 0
  /\ (~env.GEMINI_API_KEY /\ gen.parsed)
       => /\ gen.pc = "done"
          /\ gresp.status = 500
          /\ gen.calls = 0

\* a response exists exactly for the requests whose handler returned
RespondsWhenReturned ==
  /\ \A r \in Reqs : req[r].pc = "done" <=> resp[r].status # 0
  /\ gen.pc = "done" <=> gresp.status # 0

\* a response, once given, is never replaced and no call follows it
AnswersOnce ==
  [][/\ \A r \in Reqs :
          resp[r].status # 0 => (resp'[r] = resp[r] /\ ext'[r] = ext[r])
     /\ gresp.status # 0 => (gresp' = gresp /\ gen' = gen)]_vars

\* C13 (as claimed): every request issues at most one call to its external
\* API (a GET one read, a POST one write, a generation request one model
\* call) and, once its handler is over, has exactly one response; a request
\* whose API credential is missing is answered 500 without any external call.
C13_SingleShotOneResponse ==
  /\ SingleShot
  /\ MissingCredential500
  /\ \A r \in Reqs : Terminated(r) => resp[r].status # 0
  /\ \A r \in Reqs : Awaiting(r) => resp[r].status = 0
  /\ gen.pc = "done" <=> gresp.status # 0

====
